---- MODULE Spec2Model ----
(***************************************************************************)
(* Section-aware RAG backend: the ingestion pipeline                       *)
(* (services/upload_service.py) and the query pipeline                     *)
(* (services/rag_service.py) over one shared vector store.                 *)
(*                                                                         *)
(* Text is modelled structurally: a line is a tuple of characters, a page  *)
(* is a tuple of lines, a raw file is a tuple of tokens (text, white       *)
(* space, anchor tag, page-break marker).  Replies of the chat model and   *)
(* the order in which the index returns hits are inputs drawn from small   *)
(* sets.  A failing backing call is a nondeterministic outcome of the      *)
(* step that makes the call.                                               *)
(***************************************************************************)
EXTENDS Integers, Sequences, FiniteSets, TLC

VARIABLES store, ing, obs, runs, succ, qry, fn

vars == <<store, ing, obs, runs, succ, qry, fn>>

(***************************************************************************)
(* Bounds of the model.                                                    *)
(***************************************************************************)
\* invocations of process_markdown_file started in a sequential behaviour
MaxRuns == 2

\* the two workers that may run process_markdown_file at the same time
Procs == {1, 2}

\* file names offered to the upload
Sources == {"a.md", "b.md"}

(***************************************************************************)
(* Generic helpers on sequences.                                           *)
(***************************************************************************)
Range(s) == {s[i] : i \in DOMAIN s}

Prefix(s, n) == SubSeq(s, 1, IF n < Len(s) THEN n ELSE Len(s))

RECURSIVE Flatten(_)
Flatten(ss) == IF ss = <<>> THEN <<>> ELSE Head(ss) \o Flatten(Tail(ss))

\* all orderings, without repetition, of k elements of the index set S
RECURSIVE Arrangements(_, _)
Arrangements(S, k) ==
    IF k = 0 \/ S = {} THEN {<<>>}
    ELSE UNION {{<<x>> \o t : t \in Arrangements(S \ {x}, k - 1)} : x \in S}

Min(a, b) == IF a < b THEN a ELSE b

(***************************************************************************)
(* The vector store: a list of records, each the metadata of one embedded  *)
(* document plus an abstract page_content.                                 *)
(***************************************************************************)
\* PineconeVectorStore.similarity_search / as_retriever(...).invoke: the k
\* best matches of the filter, in an order the embedding decides.  Every
\* ordering of every choice of min(k, matches) matching records is possible.
\* idx is the set of positions of st whose record satisfies the filter.
SearchResults(st, k, idx) ==
    LET n == Min(k, Cardinality(idx))
    IN  {[j \in 1..n |-> st[a[j]]] : a \in Arrangements(idx, n)}

\* an upsert that replaces what the store held
AddDocumentsReplacing(st, batch) == batch

\* vector_store.add_documents: appends the batch, one new id per record
AddDocuments(st, batch) == st \o batch

NewIds(st, batch) == [j \in 1..Len(batch) |-> Len(st) + j]

(***************************************************************************)
(* UploadService: the pure stages.                                         *)
(***************************************************************************)
\* tokens of a raw file: text, white space, an anchor tag <a id='..'></a>,
\* the page-break marker <!-- PAGE BREAK -->
TokText   == "t"
TokSpace  == " "
TokAnchor == "<a>"
TokBreak  == "BRK"

RECURSIVE DropAnchors(_)
\* re.sub(r"<a id='[^']+'></a>", "", text)
DropAnchors(text) ==
    IF text = <<>> THEN <<>>
    ELSE IF Head(text) = TokAnchor THEN DropAnchors(Tail(text))
    ELSE <<Head(text)>> \o DropAnchors(Tail(text))

RECURSIVE LStrip(_)
LStrip(s) == IF s # <<>> /\ Head(s) = " " THEN LStrip(Tail(s)) ELSE s

RECURSIVE RStrip(_)
RStrip(s) ==
    IF s # <<>> /\ s[Len(s)] = " " THEN RStrip(SubSeq(s, 1, Len(s) - 1)) ELSE s

\* str.strip() on a tuple of characters or of tokens
Strip(s) == RStrip(LStrip(s))

clean_markdown_text(text) == Strip(DropAnchors(text))

RECURSIVE SplitAt(_, _, _)
\* str.split(marker): the pieces between the markers, one more than markers
SplitAt(text, marker, piece) ==
    IF text = <<>> THEN <<piece>>
    ELSE IF Head(text) = marker
         THEN <<piece>> \o SplitAt(Tail(text), marker, <<>>)
         ELSE SplitAt(Tail(text), marker, Append(piece, Head(text)))

split_pages(clean_text) == SplitAt(clean_text, TokBreak, <<>>)

RECURSIVE LeadingRun(_, _)
\* the number of leading characters of s equal to c
LeadingRun(s, c) ==
    IF s # <<>> /\ Head(s) = c THEN 1 + LeadingRun(Tail(s), c) ELSE 0

\* SECTION_RE = ^#{1,3}\s+(.+)$ : one to three '#', then white space, then
\* at least one more character
SectionMatches(line) ==
    LET h == LeadingRun(line, "#")
    IN  /\ h \in 1..3
        /\ Len(line) >= h + 2
        /\ line[h + 1] = " "

\* m.group(1): what follows the white space after the '#' run (the white
\* space gives back its last character when nothing else follows)
SectionGroup(line) ==
    LET h    == LeadingRun(line, "#")
        rest == SubSeq(line, h + 1, Len(line))
        sp   == LeadingRun(rest, " ")
    IN  IF sp < Len(rest) THEN SubSeq(rest, sp + 1, Len(rest)) ELSE <<" ">>

\* Document(page_content=f"{current_section}\n" + "\n".join(buffer), ...):
\* page_content is kept as its lines, the heading text first
SectionDoc(current_section, buffer, file_name, page_no) ==
    [page_content |-> <<current_section>> \o buffer,
     source       |-> file_name,
     section      |-> current_section,
     page_number  |-> page_no]

\* the flush condition "if current_section and buffer" (None is <<>>)
FlushNeeded(current_section, buffer) == current_section # <<>> /\ buffer # <<>>

\* lines 87-88: every page starts with no section and an empty buffer,
\* whatever the page before left behind
page_start_carried(current_section, buffer) ==
    [current_section |-> current_section, buffer |-> buffer]

page_start(current_section, buffer) ==
    [current_section |-> <<>>, buffer |-> <<>>]

RECURSIVE ScanLines(_, _, _, _, _, _)
\* the loop over page.splitlines() of one page, from line i on, and the
\* flush after the loop: the Documents appended, and the locals at the end
ScanLines(lines, i, current_section, buffer, file_name, page_no) ==
    IF i > Len(lines)
    THEN [docs |-> IF FlushNeeded(current_section, buffer)
                   THEN <<SectionDoc(current_section, buffer, file_name, page_no)>>
                   ELSE <<>>,
          current_section |-> current_section,
          buffer |-> buffer]
    ELSE LET line == Strip(lines[i])
         IN  IF SectionMatches(line)
             THEN IF FlushNeeded(current_section, buffer)
                  THEN LET rest == ScanLines(lines, i + 1, SectionGroup(line), <<>>,
                                             file_name, page_no)
                       IN  [rest EXCEPT !.docs =
                               <<SectionDoc(current_section, buffer, file_name, page_no)>>
                               \o rest.docs]
                  \* the buffer is cleared only inside the flush
                  ELSE ScanLines(lines, i + 1, SectionGroup(line), buffer,
                                 file_name, page_no)
             ELSE ScanLines(lines, i + 1, current_section,
                            Append(buffer, line), file_name, page_no)

RECURSIVE ScanPages(_, _, _, _, _)
\* the loop over enumerate(normalized_pages, start=1), from page page_no on
ScanPages(normalized_pages, page_no, current_section, buffer, file_name) ==
    IF page_no > Len(normalized_pages) THEN <<>>
    ELSE LET start == page_start(current_section, buffer)
             page  == ScanLines(normalized_pages[page_no], 1, start.current_section,
                                start.buffer, file_name, page_no)
         IN  page.docs \o ScanPages(normalized_pages, page_no + 1,
                                    page.current_section, page.buffer, file_name)

split_into_sections(normalized_pages, file_name) ==
    ScanPages(normalized_pages, 1, <<>>, <<>>, file_name)

\* the decimal digits of ASCII
IsDecimal(c) == c \in {"0", "1", "2", "3", "4", "5", "6", "7", "8", "9"}

\* str.isdigit: true of the decimal digits and of the other characters of
\* Unicode that stand for a digit; "SUP2" is the superscript two, U+00B2
IsDigit(c) == IsDecimal(c) \/ c = "SUP2"

DigitValue(c) ==
    CASE c = "0" -> 0 [] c = "1" -> 1 [] c = "2" -> 2 [] c = "3" -> 3
      [] c = "4" -> 4 [] c = "5" -> 5 [] c = "6" -> 6 [] c = "7" -> 7
      [] c = "8" -> 8 [] c = "9" -> 9

RECURSIVE DigitsOf(_)
\* "".join(filter(str.isdigit, content))
DigitsOf(content) ==
    IF content = <<>> THEN <<>>
    ELSE IF IsDigit(Head(content)) THEN <<Head(content)>> \o DigitsOf(Tail(content))
    ELSE DigitsOf(Tail(content))

RECURSIVE ToInt(_)
ToInt(ds) ==
    IF ds = <<>> THEN 0 ELSE 10 * ToInt(SubSeq(ds, 1, Len(ds) - 1)) + DigitValue(ds[Len(ds)])

\* int(year_str) raises ValueError on a character that is no decimal digit
IntRaises(year_str) == \E i \in DOMAIN year_str : ~IsDecimal(year_str[i])

\* whether extract_publication_year raises on the reply
publication_year_raises(content) ==
    LET year_str == DigitsOf(content) IN year_str # <<>> /\ IntRaises(year_str)

\* int(year_str) if year_str else 0, when it does not raise
publication_year_of(content) ==
    LET year_str == DigitsOf(content) IN IF year_str # <<>> THEN ToInt(year_str) ELSE 0

create_final_documents(docs, file_name, publication_year, keywords) ==
    [i \in 1..Len(docs) |->
        [page_content     |-> docs[i].page_content,
         source           |-> file_name,
         section          |-> docs[i].section,
         page_number      |-> docs[i].page_number,
         publication_year |-> publication_year,
         keywords         |-> keywords,
         type             |-> "page"]]

RECURSIVE DropBlankTail(_)
\* the white space a chunk loses at its end: the blank lines that close the
\* text of a section (its lines are stripped, and its first line is the
\* heading)
DropBlankTail(lines) ==
    IF lines # <<>> /\ lines[Len(lines)] = <<>>
    THEN DropBlankTail(SubSeq(lines, 1, Len(lines) - 1))
    ELSE lines

\* RecursiveCharacterTextSplitter(chunk_size=1000, chunk_overlap=100) on the
\* documents of an upload: every section text here is shorter than
\* chunk_size, and such a text comes back as one chunk, stripped, with the
\* metadata of its document (longer texts: chunks_of below)
split_documents(final_docs) ==
    [i \in DOMAIN final_docs |->
        [final_docs[i] EXCEPT !.page_content = DropBlankTail(@)]]

\* the summary record written without the extracted metadata
summary_document_without_metadata(document_summary, file_name, publication_year, keywords) ==
    [page_content     |-> <<document_summary>>,
     source           |-> file_name,
     section          |-> <<>>,
     page_number      |-> 0,
     publication_year |-> 0,
     keywords         |-> <<>>,
     type             |-> "summary"]

\* lines 260-270
summary_document(document_summary, file_name, publication_year, keywords) ==
    [page_content     |-> <<document_summary>>,
     source           |-> file_name,
     section          |-> <<>>,
     page_number      |-> 0,
     publication_year |-> publication_year,
     keywords         |-> keywords,
     type             |-> "summary"]

(***************************************************************************)
(* Inputs of the ingestion: raw files and replies of the chat model.       *)
(***************************************************************************)
Hd(n, t) == [i \in 1..n |-> "#"] \o <<" ">> \o t

\* one page, two pages with anchors and surrounding white space, the empty file
RawFiles ==
    { <<TokText>>,
      <<TokSpace, TokAnchor, TokText, TokBreak, TokText, TokAnchor, TokSpace>>,
      <<>> }

\* replies to normalization_prompt: a titled page, a page with text before
\* its first heading and a blank line, a page without headings
NormReplies ==
    { << Hd(1, <<"T">>), Hd(2, <<"A">>), <<"x">> >>,
      << <<"o">>, <<" ">> \o Hd(2, <<"B">>), <<>>, Hd(3, <<"C">>), <<"y">> >>,
      << <<"n">> >> }

\* replies are texts, tuples of characters or words, throughout
PageSummaryReplies == { <<"page summary">> }
DocSummaryReplies  == { <<"document summary">> }
YearReplies        == { <<"2", "0", "2", "3">>, <<"n", "/", "a">>, <<"1", "0", "SUP2">> }
KeywordReplies     == { <<"k1, k2">> }

(***************************************************************************)
(* UploadService.process_markdown_file as a process: one step per stage.   *)
(* ing[p] holds the locals of worker p's invocation, obs[p] what an        *)
(* observer of that invocation records: the store when it started, the     *)
(* outcome of the existence probe, and the calls made so far.              *)
(***************************************************************************)
IdleIng ==
    [pc |-> "Idle", file_name |-> "", file_content |-> <<>>, clean_text |-> <<>>,
     pages |-> <<>>, normalized_pages |-> <<>>, docs |-> <<>>,
     page_summaries |-> <<>>, document_summary |-> <<>>, publication_year |-> 0,
     keywords |-> <<>>, final_docs |-> <<>>, split_docs |-> <<>>,
     document_ids |-> <<>>, result |-> [status |-> "none"]]

NoObs ==
    [store0 |-> <<>>, probe |-> "none", llm_calls |-> 0, upsert_calls |-> 0,
     batch |-> <<>>, failed |-> "none", done |-> <<>>]

Terminal == {"Done", "Rejected", "Failed"}

\* the return value of lines 224-227
already_exists_result(file_name) ==
    [status  |-> "error",
     message |-> <<"Document '", file_name, "' already exists in the database.">>]

\* the return value of lines 290-293; cause is str(e)
error_result(cause) ==
    [status |-> "error", message |-> <<"Error processing file: ", cause>>]

\* the summary record counted among the chunks
success_result_counts_summary(file_name, pages, docs, split_docs, document_ids, publication_year, keywords) ==
    [status  |-> "success",
     message |-> <<"Successfully processed '", file_name, "'">>,
     details |-> [pages_processed    |-> Len(pages),
                  sections_created   |-> Len(docs),
                  chunks_created     |-> Len(split_docs),
                  document_ids_count |-> Len(document_ids),
                  publication_year   |-> publication_year,
                  keywords           |-> keywords]]

\* the return value of lines 276-287
success_result(file_name, pages, docs, split_docs, document_ids, publication_year, keywords) ==
    [status  |-> "success",
     message |-> <<"Successfully processed '", file_name, "'">>,
     details |-> [pages_processed    |-> Len(pages),
                  sections_created   |-> Len(docs),
                  chunks_created     |-> Len(split_docs) - 1,
                  document_ids_count |-> Len(document_ids),
                  publication_year   |-> publication_year,
                  keywords           |-> keywords]]

\* a probe whose filter is lost: any record counts
probe_filter_any(d, source_name) == TRUE

\* filter={"source": {"$eq": source_name}}
probe_filter(d, source_name) == d.source = source_name

\* source_exists: a probe that raises is reported as "not there"
source_exists(results, raised) == IF raised THEN FALSE ELSE Len(results) > 0

\* the early return dropped
after_check_never_rejects(exists) == "Clean"

\* the cleaning step passed over
after_check_skips_clean(exists) == IF exists THEN "Rejected" ELSE "SplitPages"

\* "if self.source_exists(file_name): return {...}": where the run goes next
after_check(exists) == IF exists THEN "Rejected" ELSE "Clean"

\* stage completed by worker p after so many model calls
Completed(p, stage, calls) ==
    [obs EXCEPT ![p].done = Append(obs[p].done, stage),
                ![p].llm_calls = obs[p].llm_calls + calls]

\* a stage raised: the except clause of process_markdown_file
Fail(p, stage, calls) ==
    /\ ing' = [ing EXCEPT ![p].pc = "Failed", ![p].result = error_result(stage)]
    /\ obs' = [obs EXCEPT ![p].failed = stage,
                          ![p].llm_calls = obs[p].llm_calls + calls]
    /\ UNCHANGED <<store, runs, succ, qry, fn>>

\* process_markdown_file(file_content, file_name) is entered
Begin(p, file_name, file_content) ==
    /\ runs < MaxRuns
    /\ ing' = [ing EXCEPT ![p] = [IdleIng EXCEPT !.pc = "CheckExists",
                                               !.file_name = file_name,
                                               !.file_content = file_content]]
    /\ obs' = [obs EXCEPT ![p] = [NoObs EXCEPT !.store0 = store]]
    /\ runs' = runs + 1
    /\ UNCHANGED <<store, succ, qry, fn>>

\* sequential use: an invocation starts when no other is running
StartSeq(p) ==
    /\ \A q \in Procs : ing[q].pc \in Terminal \cup {"Idle"}
    /\ \E file_name \in Sources, file_content \in RawFiles :
          Begin(p, file_name, file_content)

\* concurrent use: each worker serves one upload, whenever it likes (the
\* uploads are one-page files: the interleaving, not the text, is the input)
StartConc(p) ==
    /\ ing[p].pc = "Idle"
    /\ \E file_name \in Sources, file_content \in {<<TokText>>} :
          Begin(p, file_name, file_content)

CheckDone(p, exists, probe) ==
    /\ ing' = [ing EXCEPT ![p].pc = after_check(exists),
                          ![p].result = IF after_check(exists) = "Rejected"
                                        THEN already_exists_result(ing[p].file_name)
                                        ELSE ing[p].result]
    /\ obs' = [Completed(p, "CheckExists", 0) EXCEPT ![p].probe = probe]
    /\ UNCHANGED <<store, runs, succ, qry, fn>>

\* lines 222-227: the existence probe, similarity_search(k=1, source == name)
CheckExists(p) ==
    /\ ing[p].pc = "CheckExists"
    /\ \/ \E results \in SearchResults(store, 1,
                            {i \in DOMAIN store :
                                probe_filter(store[i], ing[p].file_name)}) :
             CheckDone(p, source_exists(results, FALSE),
                       IF Len(results) > 0 THEN "found" ELSE "absent")
       \/ CheckDone(p, source_exists(<<>>, TRUE), "raised")

\* line 230
Clean(p) ==
    /\ ing[p].pc = "Clean"
    /\ ing' = [ing EXCEPT ![p].pc = "SplitPages",
                          ![p].clean_text = clean_markdown_text(ing[p].file_content)]
    /\ obs' = Completed(p, "Clean", 0)
    /\ UNCHANGED <<store, runs, succ, qry, fn>>

\* line 233
SplitPages(p) ==
    /\ ing[p].pc = "SplitPages"
    /\ ing' = [ing EXCEPT ![p].pc = "Normalize",
                          ![p].pages = split_pages(ing[p].clean_text)]
    /\ obs' = Completed(p, "SplitPages", 0)
    /\ UNCHANGED <<store, runs, succ, qry, fn>>

\* line 236, normalize_pages: one model call per page, the first failure
\* ends the run
Normalize(p) ==
    /\ ing[p].pc = "Normalize"
    /\ LET n == Len(ing[p].pages)
       IN  \/ \E replies \in [1..n -> NormReplies] :
                 /\ ing' = [ing EXCEPT ![p].pc = "SplitSections",
                                       ![p].normalized_pages = replies]
                 /\ obs' = Completed(p, "Normalize", n)
                 /\ UNCHANGED <<store, runs, succ, qry, fn>>
           \/ \E k \in 1..n : Fail(p, "Normalize", k)

\* line 239
SplitSections(p) ==
    /\ ing[p].pc = "SplitSections"
    /\ ing' = [ing EXCEPT ![p].pc = "SummarizePages",
                          ![p].docs = split_into_sections(ing[p].normalized_pages,
                                                          ing[p].file_name)]
    /\ obs' = Completed(p, "SplitSections", 0)
    /\ UNCHANGED <<store, runs, succ, qry, fn>>

\* line 242, generate_page_summaries: one model call per section document
SummarizePages(p) ==
    /\ ing[p].pc = "SummarizePages"
    /\ LET n == Len(ing[p].docs)
       IN  \/ \E replies \in [1..n -> PageSummaryReplies] :
                 /\ ing' = [ing EXCEPT ![p].pc = "SummarizeDocument",
                                       ![p].page_summaries = replies]
                 /\ obs' = Completed(p, "SummarizePages", n)
                 /\ UNCHANGED <<store, runs, succ, qry, fn>>
           \/ \E k \in 1..n : Fail(p, "SummarizePages", k)

\* line 245
SummarizeDocument(p) ==
    /\ ing[p].pc = "SummarizeDocument"
    /\ \/ \E reply \in DocSummaryReplies :
             /\ ing' = [ing EXCEPT ![p].pc = "ExtractYear",
                                   ![p].document_summary = reply]
             /\ obs' = Completed(p, "SummarizeDocument", 1)
             /\ UNCHANGED <<store, runs, succ, qry, fn>>
       \/ Fail(p, "SummarizeDocument", 1)

\* line 248
ExtractYear(p) ==
    /\ ing[p].pc = "ExtractYear"
    /\ \/ \E reply \in YearReplies :
             IF publication_year_raises(reply)
             THEN Fail(p, "ExtractYear", 1)
             ELSE /\ ing' = [ing EXCEPT ![p].pc = "ExtractKeywords",
                                        ![p].publication_year = publication_year_of(reply)]
                  /\ obs' = Completed(p, "ExtractYear", 1)
                  /\ UNCHANGED <<store, runs, succ, qry, fn>>
       \/ Fail(p, "ExtractYear", 1)

\* line 249
ExtractKeywords(p) ==
    /\ ing[p].pc = "ExtractKeywords"
    /\ \/ \E reply \in KeywordReplies :
             /\ ing' = [ing EXCEPT ![p].pc = "AttachMetadata",
                                   ![p].keywords = Strip(reply)]
             /\ obs' = Completed(p, "ExtractKeywords", 1)
             /\ UNCHANGED <<store, runs, succ, qry, fn>>
       \/ Fail(p, "ExtractKeywords", 1)

\* lines 252-254
AttachMetadata(p) ==
    /\ ing[p].pc = "AttachMetadata"
    /\ ing' = [ing EXCEPT ![p].pc = "Chunk",
                          ![p].final_docs =
                              create_final_documents(ing[p].docs, ing[p].file_name,
                                  ing[p].publication_year, ing[p].keywords)]
    /\ obs' = Completed(p, "AttachMetadata", 0)
    /\ UNCHANGED <<store, runs, succ, qry, fn>>

\* line 257
Chunk(p) ==
    /\ ing[p].pc = "Chunk"
    /\ ing' = [ing EXCEPT ![p].pc = "Upsert",
                          ![p].split_docs = split_documents(ing[p].final_docs)]
    /\ obs' = Completed(p, "Chunk", 0)
    /\ UNCHANGED <<store, runs, succ, qry, fn>>

\* the summary record left out of the batch
upload_batch_pages_only(l) == l.split_docs

\* lines 260-271: the summary record joins the chunks
upload_batch(l) ==
    Append(l.split_docs,
           summary_document(l.document_summary, l.file_name,
                            l.publication_year, l.keywords))

\* lines 260-287: the one add_documents call, and the success result.  A
\* call that raises is taken to have written nothing.
Upsert(p) ==
    /\ ing[p].pc = "Upsert"
    /\ LET batch == upload_batch(ing[p])
           ids   == NewIds(store, batch)
       IN  \/ /\ store' = AddDocuments(store, batch)
              /\ ing' = [ing EXCEPT ![p].pc = "Done",
                                    ![p].split_docs = batch,
                                    ![p].document_ids = ids,
                                    ![p].result =
                                        success_result(ing[p].file_name, ing[p].pages,
                                            ing[p].docs, batch, ids,
                                            ing[p].publication_year, ing[p].keywords)]
              /\ obs' = [Completed(p, "Upsert", 0) EXCEPT
                                    ![p].upsert_calls = obs[p].upsert_calls + 1,
                                    ![p].batch = batch]
              /\ succ' = [succ EXCEPT ![ing[p].file_name] = succ[ing[p].file_name] + 1]
              /\ UNCHANGED <<runs, qry, fn>>
           \/ /\ ing' = [ing EXCEPT ![p].pc = "Failed",
                                    ![p].split_docs = batch,
                                    ![p].result = error_result("Upsert")]
              /\ obs' = [obs EXCEPT ![p].upsert_calls = obs[p].upsert_calls + 1,
                                    ![p].failed = "Upsert"]
              /\ UNCHANGED <<store, runs, succ, qry, fn>>

IngestStep(p) ==
    \/ CheckExists(p)
    \/ Clean(p)
    \/ SplitPages(p)
    \/ Normalize(p)
    \/ SplitSections(p)
    \/ SummarizePages(p)
    \/ SummarizeDocument(p)
    \/ ExtractYear(p)
    \/ ExtractKeywords(p)
    \/ AttachMetadata(p)
    \/ Chunk(p)
    \/ Upsert(p)

NoQuery == [pc |-> "Idle"]
NoFn    == [pc |-> "Idle"]

Init ==
    /\ store = <<>>
    /\ ing = [p \in Procs |-> IdleIng]
    /\ obs = [p \in Procs |-> NoObs]
    /\ runs = 0
    /\ succ = [s \in Sources |-> 0]
    /\ qry = NoQuery
    /\ fn = NoFn

\* uploads served one after the other by worker 1
Next == StartSeq(1) \/ IngestStep(1)

Spec == Init /\ [][Next]_vars

\* two workers serving one upload each, their steps interleaved
NextConc == \E p \in Procs : StartConc(p) \/ IngestStep(p)

SpecConc == Init /\ [][NextConc]_vars

(***************************************************************************)
(* RAGService: the pure parts.                                             *)
(*                                                                         *)
(* A reply of the judge is [fenced, kind, items]: whether it came wrapped  *)
(* in a ```json fence, what json.loads makes of the cleaned text ("text":  *)
(* not JSON, "value": JSON but no array, "array"), and the array's         *)
(* entries, each a record with the keys the judge wrote.                   *)
(***************************************************************************)
ScoreFloor == 50
TopN       == 3
PageK      == 5
SummaryK   == 1000

\* response.content.replace("```json", "").replace("```", "").strip()
clean_content(response) == [kind |-> response.kind, items |-> response.items]

\* json.loads raises on text that is no JSON; list.sort is missing on a
\* JSON value that is no array
LoadRaises(content) == content.kind # "array"

\* scored_docs.sort(key=lambda x: x["score"], ...) reads the key of every entry
SortRaises(items) == \E i \in DOMAIN items : "score" \notin DOMAIN items[i]

RECURSIVE InsertDesc(_, _, _)
\* i goes in front of the first index of the sorted list whose score is not
\* greater: equal scores keep their original order
InsertDesc(items, i, sorted) ==
    IF sorted = <<>> THEN <<i>>
    ELSE IF items[Head(sorted)].score > items[i].score
         THEN <<Head(sorted)>> \o InsertDesc(items, i, Tail(sorted))
         ELSE <<i>> \o sorted

RECURSIVE SortDescFrom(_, _)
\* sort(reverse=True) of items[from..], as the list of their indices
SortDescFrom(items, from) ==
    IF from > Len(items) THEN <<>>
    ELSE InsertDesc(items, from, SortDescFrom(items, from + 1))

sorted_indices(items) == SortDescFrom(items, 1)

\* the floor taken as exclusive
eligible_above_floor(d) == d.score > ScoreFloor

\* the test of "if d["score"] >= 50"
eligible(d) == d.score >= ScoreFloor

\* top_scored[:3]
final_selection(items) ==
    LET order == sorted_indices(items)
        top   == SelectSeq(order, LAMBDA i : eligible(items[i]))
    IN  Prefix(top, TopN)

\* [d["filename"] for d in final_selection] reads the key of the selected
SelectRaises(items) ==
    \E j \in DOMAIN final_selection(items) :
        "filename" \notin DOMAIN items[final_selection(items)[j]]

\* the except branch: the first three candidates, in retrieval order
fallback_selection(summary_candidates) ==
    LET first == Prefix(summary_candidates, TopN)
    IN  [j \in 1..Len(first) |-> first[j].source]

\* whether lines 59-68 raise
parse_raises(response) ==
    LET content == clean_content(response)
    IN  \/ LoadRaises(content)
        \/ SortRaises(content.items)
        \/ SelectRaises(content.items)

\* lines 58-72 of get_filtered_documents
get_filtered_documents(summary_candidates, response) ==
    IF parse_raises(response)
    THEN fallback_selection(summary_candidates)
    ELSE LET items == clean_content(response).items
             sel   == final_selection(items)
         IN  [j \in 1..Len(sel) |-> items[sel[j]].filename]

\* duplicates recognised by the source alone
source_key_source_only(doc) == <<doc.source>>

\* the key of the seen set
source_key(doc) == <<doc.source, doc.page_number>>

RECURSIVE ExtractFrom(_, _, _)
\* the loop of extract_sources from hit i on
ExtractFrom(page_hits, i, seen) ==
    IF i > Len(page_hits) THEN <<>>
    ELSE IF source_key(page_hits[i]) \notin seen
         THEN <<[source      |-> page_hits[i].source,
                 section     |-> page_hits[i].section,
                 page_number |-> page_hits[i].page_number]>>
              \o ExtractFrom(page_hits, i + 1, seen \cup {source_key(page_hits[i])})
         ELSE ExtractFrom(page_hits, i + 1, seen)

extract_sources(page_hits) == ExtractFrom(page_hits, 1, {})

(***************************************************************************)
(* get_filtered_documents applied to one judge reply (SpecFilter).         *)
(***************************************************************************)
\* longest judge array of well-formed entries
MaxJudgeLen == 4
\* longest judge array with malformed entries
MaxBadLen == 2
\* most summary candidates retrieved
MaxCand == 5

JudgeNames  == {"a.md", "b.md", "c.md"}
JudgeScores == {40, 50, 90, 100}

GoodEntries == {[filename |-> f, score |-> sc] : f \in JudgeNames, sc \in JudgeScores}
BadEntries  == {[score |-> 40], [score |-> 90], [filename |-> "a.md"], [other |-> 0]}

CorpusNames == <<"a.md", "b.md", "c.md", "d.md", "e.md", "f.md", "g.md">>

\* n summary records, in the order the retrieval returned them
Candidates(n) ==
    [i \in 1..n |-> summary_document(<<"document summary">>, CorpusNames[i], 2023, <<"k1, k2">>)]

SeqsUpTo(S, n) == UNION {[1..k -> S] : k \in 0..n}

Array(items, fenced) == [fenced |-> fenced, kind |-> "array", items |-> items]
NonArray(kind, fenced) == [fenced |-> fenced, kind |-> kind, items |-> <<>>]

\* replies paired with every candidate list: non-arrays and short arrays
\* over all entries
SmallReplies ==
    {NonArray(k, f) : k \in {"text", "value"}, f \in BOOLEAN}
    \cup {Array(a, f) : a \in SeqsUpTo(GoodEntries \cup BadEntries, MaxBadLen),
                        f \in BOOLEAN}

\* longer arrays of well-formed entries, paired with three candidates
GoodReplies == {Array(a, FALSE) : a \in SeqsUpTo(GoodEntries, MaxJudgeLen)}

FilterCall ==
    /\ fn.pc = "Idle"
    /\ \E n \in 0..MaxCand :
       \E response \in IF n = TopN THEN SmallReplies \cup GoodReplies ELSE SmallReplies :
          fn' = [pc |-> "Filtered",
                 summary_candidates |-> Candidates(n),
                 response |-> response,
                 filtered_docs |-> get_filtered_documents(Candidates(n), response)]
    /\ UNCHANGED <<store, ing, obs, runs, succ, qry>>

SpecFilter == Init /\ [][FilterCall]_vars

(***************************************************************************)
(* extract_sources applied to one list of page hits (SpecSources).         *)
(***************************************************************************)
\* most page hits in the list
MaxHits == 4

HitRecords ==
    {[type |-> "page", source |-> s, page_number |-> n, section |-> sec,
      page_content |-> <<sec>>] :
        s \in {"t.md", "u.md"}, n \in {1, 2}, sec \in {<<"Intro">>, <<"Methods">>}}

SourcesCall ==
    /\ fn.pc = "Idle"
    /\ \E page_hits \in SeqsUpTo(HitRecords, MaxHits) :
          fn' = [pc |-> "Extracted",
                 page_hits |-> page_hits,
                 sources |-> extract_sources(page_hits)]
    /\ UNCHANGED <<store, ing, obs, runs, succ, qry>>

SpecSources == Init /\ [][SourcesCall]_vars

(***************************************************************************)
(* RAGService.query as a process over a store that uploads have filled     *)
(* (SpecQuery).  Each step is one stage; a stage that raises ends the      *)
(* invocation in the except clause of query.                               *)
(***************************************************************************)
\* the batch a successful upload of file_name writes, from the replies of
\* the model to its pages
Ingested(file_name, normalized_pages, year_reply) ==
    LET docs == split_into_sections(normalized_pages, file_name)
        year == publication_year_of(year_reply)
        l    == [split_docs |-> split_documents(
                                  create_final_documents(docs, file_name, year,
                                                         <<"k1, k2">>)),
                 document_summary |-> <<"document summary">>,
                 file_name |-> file_name,
                 publication_year |-> year,
                 keywords |-> <<"k1, k2">>]
    IN  upload_batch(l)

PageTitled == << Hd(1, <<"T">>), Hd(2, <<"A">>), <<"x">> >>
PageOrphan == << <<"o">>, <<" ">> \o Hd(2, <<"B">>), <<>>, Hd(3, <<"C">>), <<"y">> >>
PagePlain  == << <<"n">> >>

\* the empty corpus, one source, a source without sections, two sources,
\* one source uploaded twice by racing uploads, and two sources with more
\* page records than one page search returns
QueryStores ==
    { <<>>,
      Ingested("a.md", <<PageTitled, PageTitled, PageTitled>>, <<"2", "0", "2", "3">>)
          \o Ingested("b.md", <<PageOrphan, PageTitled>>, <<"n", "/", "a">>),
      Ingested("a.md", <<PageTitled>>, <<"2", "0", "2", "3">>),
      Ingested("a.md", <<PagePlain>>, <<"n", "/", "a">>),
      Ingested("a.md", <<PageTitled>>, <<"2", "0", "2", "3">>)
          \o Ingested("b.md", <<PageOrphan, PageTitled>>, <<"n", "/", "a">>),
      Ingested("a.md", <<PageTitled>>, <<"2", "0", "2", "3">>)
          \o Ingested("a.md", <<PageTitled>>, <<"2", "0", "2", "3">>) }

Queries == {"what is x?"}

\* replies of the judge within a query: unparsable text, JSON that is no
\* array, arrays with an entry that lacks a key, a fenced array, arrays that
\* select none, one or both sources or a file not in the corpus
JudgeQueryReplies ==
    { NonArray("text", FALSE),
      NonArray("value", TRUE),
      Array(<< [filename |-> "b.md"] >>, FALSE),
      Array(<< [filename |-> "a.md", score |-> 90], [score |-> 40] >>, FALSE),
      Array(<<>>, FALSE),
      Array(<< [filename |-> "a.md", score |-> 40] >>, FALSE),
      Array(<< [filename |-> "a.md", score |-> 90] >>, TRUE),
      Array(<< [filename |-> "b.md", score |-> 50],
               [filename |-> "a.md", score |-> 90] >>, FALSE),
      Array(<< [filename |-> "c.md", score |-> 100] >>, FALSE) }

InsufficientAnswer == <<"The context does not contain enough information.">>
AnswerReplies == { InsufficientAnswer, <<"x is y.">> }

\* response before the judge has been called
NoReply == NonArray("none", FALSE)

QueryStages == <<"Filter", "RetrievePages", "GenerateAnswer", "ExtractSources">>

\* search_kwargs filter {"type": "summary"}
summary_filter(d) == d.type = "summary"

\* the type restriction of the page search lost
page_filter_any_type(d, filtered_docs) == d.source \in Range(filtered_docs)

\* the source restriction of the page search lost
page_filter_any_source(d, filtered_docs) == d.type = "page"

\* search_kwargs filter {"type": "page", "source": {"$in": filtered_docs}}
page_filter(d, filtered_docs) == d.type = "page" /\ d.source \in Range(filtered_docs)

\* lines 89-92: one block per hit, "[Source: s | Page n]\n" and its text
build_context(page_hits) ==
    [i \in 1..Len(page_hits) |->
        <<page_hits[i].source, page_hits[i].page_number, page_hits[i].page_content>>]

\* the degraded response keeps what the filter found
query_error_result_keeps_filter(cause, filtered_docs) ==
    [answer |-> <<"An error occurred: ", cause>>, sources |-> <<>>,
     filtered_documents |-> filtered_docs]

\* lines 148-153; cause is str(e)
query_error_result(cause, filtered_docs) ==
    [answer |-> <<"An error occurred: ", cause>>, sources |-> <<>>,
     filtered_documents |-> <<>>]

\* lines 142-146
query_result(answer, sources, filtered_docs) ==
    [answer |-> answer, sources |-> sources, filtered_documents |-> filtered_docs]

QueryRaise(stage) ==
    /\ qry' = [qry EXCEPT !.pc = "Returned",
                          !.raised = stage,
                          !.stages = Append(qry.stages, stage),
                          !.result = query_error_result(stage, qry.filtered_docs)]
    /\ UNCHANGED <<store, ing, obs, runs, succ, fn>>

\* query(user_query) is entered
QueryStart ==
    /\ qry.pc = "Idle"
    /\ \E user_query \in Queries :
          qry' = [pc |-> "RetrieveSummaries", user_query |-> user_query,
                  summary_candidates |-> <<>>, response |-> NoReply,
                  filtered_docs |-> <<>>,
                  page_hits |-> <<>>, context |-> <<>>, answer |-> <<>>,
                  sources |-> <<>>, stages |-> <<>>, raised |-> "none",
                  result |-> [answer |-> <<>>]]
    /\ UNCHANGED <<store, ing, obs, runs, succ, fn>>

\* lines 41-43: the summary search of get_filtered_documents
RetrieveSummaries ==
    /\ qry.pc = "RetrieveSummaries"
    /\ \/ \E found \in SearchResults(store, SummaryK,
                          {i \in DOMAIN store : summary_filter(store[i])}) :
             /\ qry' = [qry EXCEPT !.pc = "Judge", !.summary_candidates = found]
             /\ UNCHANGED <<store, ing, obs, runs, succ, fn>>
       \/ QueryRaise("Filter")

\* lines 51-72: the judge call and the parse of its reply
Judge ==
    /\ qry.pc = "Judge"
    /\ \/ \E response \in JudgeQueryReplies :
             /\ qry' = [qry EXCEPT !.pc = "RetrievePages",
                                   !.stages = Append(qry.stages, "Filter"),
                                   !.response = response,
                                   !.filtered_docs =
                                       get_filtered_documents(qry.summary_candidates,
                                                              response)]
             /\ UNCHANGED <<store, ing, obs, runs, succ, fn>>
       \/ QueryRaise("Filter")

\* line 134, retrieve_pages
RetrievePages ==
    /\ qry.pc = "RetrievePages"
    /\ \/ \E found \in SearchResults(store, PageK,
                          {i \in DOMAIN store :
                              page_filter(store[i], qry.filtered_docs)}) :
             /\ qry' = [qry EXCEPT !.pc = "GenerateAnswer",
                                   !.stages = Append(qry.stages, "RetrievePages"),
                                   !.page_hits = found]
             /\ UNCHANGED <<store, ing, obs, runs, succ, fn>>
       \/ QueryRaise("RetrievePages")

\* line 137, generate_answer: the context is built, then the model answers
GenerateAnswer ==
    /\ qry.pc = "GenerateAnswer"
    /\ \/ \E reply \in AnswerReplies :
             /\ qry' = [qry EXCEPT !.pc = "ExtractSources",
                                   !.stages = Append(qry.stages, "GenerateAnswer"),
                                   !.context = build_context(qry.page_hits),
                                   !.answer = reply]
             /\ UNCHANGED <<store, ing, obs, runs, succ, fn>>
       \/ QueryRaise("GenerateAnswer")

\* lines 140-146: extract_sources and the return
ExtractSources ==
    /\ qry.pc = "ExtractSources"
    /\ LET sources == extract_sources(qry.page_hits)
       IN  qry' = [qry EXCEPT !.pc = "Returned",
                              !.stages = Append(qry.stages, "ExtractSources"),
                              !.sources = sources,
                              !.result = query_result(qry.answer, sources,
                                                      qry.filtered_docs)]
    /\ UNCHANGED <<store, ing, obs, runs, succ, fn>>

InitQuery ==
    /\ store \in QueryStores
    /\ ing = [p \in Procs |-> IdleIng]
    /\ obs = [p \in Procs |-> NoObs]
    /\ runs = 0
    /\ succ = [s \in Sources |-> 0]
    /\ qry = NoQuery
    /\ fn = NoFn

NextQuery ==
    \/ QueryStart
    \/ RetrieveSummaries
    \/ Judge
    \/ RetrievePages
    \/ GenerateAnswer
    \/ ExtractSources

SpecQuery == InitQuery /\ [][NextQuery]_vars

(***************************************************************************)
(* One invocation of process_markdown_file, followed to its end, over a    *)
(* store that earlier uploads have filled (SpecOnceLive).                  *)
(***************************************************************************)
\* worker p serves one upload, so that ing[p] is the record of one
\* invocation for good
StartOnce(p) ==
    /\ ing[p].pc = "Idle"
    /\ \E file_name \in Sources, file_content \in RawFiles :
          Begin(p, file_name, file_content)

NextOnce == StartOnce(1) \/ IngestStep(1)

\* an invocation that has been entered goes on to its next stage: each stage
\* is a bounded computation or a call that returns or raises
SpecOnceLive == InitQuery /\ [][NextOnce]_vars /\ WF_vars(IngestStep(1))

(***************************************************************************)
(* split_into_sections applied to one list of normalized pages             *)
(* (SpecSections).  A page is given as the lines page.splitlines() makes   *)
(* of it.                                                                  *)
(***************************************************************************)
\* most lines on a page
MaxLines == 3

\* a second-level heading, a first-level heading, a line of text met before
\* any heading, a line of body text, a blank line
SectionLines == { Hd(2, <<"H">>), Hd(1, <<"A">>), <<"o">>, <<"b">>, <<>> }

SectionPages == SeqsUpTo(SectionLines, MaxLines)

\* pages that follow another page: starting with text, with a heading, with
\* a blank line; with and without a section of their own; empty
FollowingPages ==
    { << <<"o">>, Hd(1, <<"A">>), <<"b">> >>,
      << Hd(1, <<"A">>), <<"b">> >>,
      << <<"o">> >>,
      << <<>>, Hd(2, <<"H">>) >>,
      << Hd(2, <<"H">>), <<>>, <<"b">> >>,
      <<>> }

\* one page, or two pages with the page boundary between them
SectionInputs ==
    {<<p>> : p \in SectionPages} \cup {<<p, q>> : p \in SectionPages, q \in FollowingPages}

SectionsCall ==
    /\ fn.pc = "Idle"
    /\ \E normalized_pages \in SectionInputs, file_name \in {"a.md"} :
          fn' = [pc |-> "Split",
                 normalized_pages |-> normalized_pages,
                 file_name |-> file_name,
                 docs |-> split_into_sections(normalized_pages, file_name)]
    /\ UNCHANGED <<store, ing, obs, runs, succ, qry>>

SpecSections == Init /\ [][SectionsCall]_vars

(***************************************************************************)
(* The upload endpoint, app.py upload_document, around one invocation of   *)
(* process_markdown_file (SpecUpload).  fn holds the request and, in the   *)
(* end, the response.                                                      *)
(***************************************************************************)
\* file names of uploads, and how they are spelled
UploadNames == Sources \cup {"a.txt", "md"}

NameChars(name) ==
    CASE name = "a.md"  -> <<"a", ".", "m", "d">>
      [] name = "b.md"  -> <<"b", ".", "m", "d">>
      [] name = "a.txt" -> <<"a", ".", "t", "x", "t">>
      [] name = "md"    -> <<"m", "d">>

\* str.endswith
EndsWith(s, suffix) ==
    /\ Len(s) >= Len(suffix)
    /\ SubSeq(s, Len(s) - Len(suffix) + 1, Len(s)) = suffix

\* the check of the file type left out
is_markdown_any(filename) == TRUE

\* file.filename.endswith('.md')
is_markdown(filename) == EndsWith(NameChars(filename), <<".", "m", "d">>)

\* the bytes of an upload: whether they decode as UTF-8, and to what text
UploadBodies ==
    {[utf8 |-> TRUE, text |-> t] : t \in RawFiles} \cup {[utf8 |-> FALSE, text |-> <<>>]}

\* raise HTTPException(status_code=..., detail=...)
http_exception(status_code, detail) ==
    [kind |-> "HTTPException", status_code |-> status_code, detail |-> detail]

\* what the body of the try block returns or raises once
\* process_markdown_file has returned result (lines 179-187)
try_outcome(result) ==
    IF result.status = "error"
    THEN http_exception(400, result.message)
    ELSE [kind |-> "return", status_code |-> 200, detail |-> result.message]

\* the except clauses of upload_document (lines 189-200): HTTPException is
\* an Exception and not a UnicodeDecodeError, so the last clause takes it
except_clauses(outcome) ==
    CASE outcome.kind = "return" -> outcome
      [] outcome.kind = "UnicodeDecodeError" ->
            http_exception(400, <<"File encoding error. Please ensure the file is UTF-8 encoded.">>)
      [] OTHER ->
            http_exception(500, <<"Error processing file: ", outcome.detail>>)

Responded(filename, body, store0, invoked, outcome) ==
    [pc |-> "Responded", filename |-> filename, body |-> body, store0 |-> store0,
     invoked |-> invoked, status_code |-> outcome.status_code,
     detail |-> outcome.detail]

\* lines 158-173: the request arrives, the file type is checked and the
\* bytes are decoded
Receive ==
    /\ fn.pc = "Idle"
    /\ \E filename \in UploadNames, body \in UploadBodies :
          fn' = IF ~is_markdown(filename)
                THEN Responded(filename, body, store, FALSE,
                         http_exception(400, <<"Only .md (markdown) files are supported">>))
                ELSE IF ~body.utf8
                THEN Responded(filename, body, store, FALSE,
                         except_clauses([kind |-> "UnicodeDecodeError",
                                         status_code |-> 0, detail |-> <<>>]))
                ELSE [pc |-> "Decoded", filename |-> filename, body |-> body,
                      store0 |-> store]
    /\ UNCHANGED <<store, ing, obs, runs, succ, qry>>

\* lines 174-177: process_markdown_file is called with the decoded text
Invoke ==
    /\ fn.pc = "Decoded"
    /\ ing[1].pc = "Idle"
    /\ Begin(1, fn.filename, fn.body.text)

\* lines 179-200: the result becomes the response
Respond ==
    /\ fn.pc = "Decoded"
    /\ ing[1].pc \in Terminal
    /\ fn' = Responded(fn.filename, fn.body, fn.store0, TRUE,
                       except_clauses(try_outcome(ing[1].result)))
    /\ UNCHANGED <<store, ing, obs, runs, succ, qry>>

NextUpload == Receive \/ Invoke \/ IngestStep(1) \/ Respond

SpecUpload == InitQuery /\ [][NextUpload]_vars

(***************************************************************************)
(* extract_publication_year applied to one reply of the model (SpecYear).  *)
(***************************************************************************)
\* most characters in a reply to publication_year_prompt
MaxYearLen == 4

\* decimal digits, a sign, a letter, and the superscript two
YearChars == {"2", "0", "3", "-", "n", "SUP2"}

YearCall ==
    /\ fn.pc = "Idle"
    /\ \E content \in SeqsUpTo(YearChars, MaxYearLen) :
          fn' = [pc |-> "Year",
                 content |-> content,
                 raised |-> publication_year_raises(content),
                 year |-> IF publication_year_raises(content) THEN 0
                          ELSE publication_year_of(content)]
    /\ UNCHANGED <<store, ing, obs, runs, succ, qry>>

SpecYear == Init /\ [][YearCall]_vars

(***************************************************************************)
(* split_documents: RecursiveCharacterTextSplitter(chunk_size=1000,        *)
(* chunk_overlap=100) applied to the text of one section document          *)
(* (SpecChunk).                                                            *)
(*                                                                         *)
(* A text is given by its runs: [c |-> a character, n |-> how many times   *)
(* it is repeated], neighbouring runs differing in c; "NL" is the newline. *)
(* A piece of the text, and a chunk, is an interval [lo, hi] of its        *)
(* positions, counted from 1.  The splitter is created with its defaults:  *)
(* the separators "\n\n", "\n", " ", "" tried in this order, each          *)
(* separator kept at the start of the piece that follows it, lengths       *)
(* counted in characters, and every chunk stripped of surrounding white    *)
(* space.                                                                  *)
(***************************************************************************)
ChunkSize    == 1000
ChunkOverlap == 100

Max(a, b) == IF a > b THEN a ELSE b

RECURSIVE TextLen(_)
TextLen(t) == IF t = <<>> THEN 0 ELSE Head(t).n + TextLen(Tail(t))

RunStart(t, k) == 1 + TextLen(SubSeq(t, 1, k - 1))
RunEnd(t, k)   == TextLen(SubSeq(t, 1, k))

CharAt(t, i) == t[CHOOSE k \in DOMAIN t : RunStart(t, k) <= i /\ i <= RunEnd(t, k)].c

IsSpace(c) == c \in {" ", "NL"}

PieceLen(piece) == piece.hi - piece.lo + 1

\* the separators of RecursiveCharacterTextSplitter, as strings of characters
Separators == << <<"NL", "NL">>, <<"NL">>, <<" ">>, <<>> >>

\* where the matches of re.split(separator) start inside a piece: from left
\* to right, without overlap (every separator repeats one character)
Matches(t, piece, separator) ==
    UNION { LET s == Max(piece.lo, RunStart(t, k))
                f == Min(piece.hi, RunEnd(t, k))
                m == Len(separator)
            IN  {s + m * j : j \in 0..(((f - s + 1) \div m) - 1)}
            : k \in {k \in DOMAIN t : t[k].c = separator[1]} }

RECURSIVE Ascending(_)
\* the elements of a set of numbers in ascending order
Ascending(S) ==
    IF S = {} THEN <<>>
    ELSE LET least == CHOOSE x \in S : \A y \in S : x <= y
         IN  <<least>> \o Ascending(S \ {least})

\* _split_text_with_regex with keep_separator: the text before the first
\* match, then every match with the text that follows it; empty pieces are
\* dropped
SplitKeeping(t, piece, separator) ==
    LET starts == Ascending({piece.lo} \cup Matches(t, piece, separator))
    IN  [i \in DOMAIN starts |->
            [lo |-> starts[i],
             hi |-> IF i < Len(starts) THEN starts[i + 1] - 1 ELSE piece.hi]]

RECURSIVE SkipSpaceLeft(_, _, _)
SkipSpaceLeft(t, lo, hi) ==
    IF lo <= hi /\ IsSpace(CharAt(t, lo)) THEN SkipSpaceLeft(t, lo + 1, hi) ELSE lo

RECURSIVE SkipSpaceRight(_, _, _)
SkipSpaceRight(t, lo, hi) ==
    IF lo <= hi /\ IsSpace(CharAt(t, hi)) THEN SkipSpaceRight(t, lo, hi - 1) ELSE hi

\* _join_docs: the joined pieces stripped; nothing when only white space
JoinDocs(t, lo, hi) ==
    LET l == SkipSpaceLeft(t, lo, hi)
        h == SkipSpaceRight(t, l, hi)
    IN  IF l > h THEN <<>> ELSE <<[lo |-> l, hi |-> h]>>

\* the window never closed
exceeds_never(total, len, size) == FALSE

\* "total + _len + separator_len > self._chunk_size", the separator being ""
exceeds(total, len, size) == total + len > size

RECURSIVE PopWindow(_, _, _, _, _, _)
\* the while loop of _merge_splits: pieces leave the window from the left
\* until what stays is no longer than the overlap and the next piece fits
PopWindow(splits, first, total, len, size, overlap) ==
    IF total > overlap \/ (exceeds(total, len, size) /\ total > 0)
    THEN PopWindow(splits, first + 1, total - PieceLen(splits[first]), len,
                   size, overlap)
    ELSE [first |-> first, total |-> total]

RECURSIVE MergeFrom(_, _, _, _, _, _, _)
\* _merge_splits from piece i on; the window is splits[first..i-1], total
\* its length
MergeFrom(t, splits, i, first, total, size, overlap) ==
    IF i > Len(splits)
    THEN IF first <= Len(splits)
         THEN JoinDocs(t, splits[first].lo, splits[Len(splits)].hi)
         ELSE <<>>
    ELSE LET len == PieceLen(splits[i])
         IN  IF exceeds(total, len, size) /\ first < i
             THEN LET w == PopWindow(splits, first, total, len, size, overlap)
                  IN  JoinDocs(t, splits[first].lo, splits[i - 1].hi)
                      \o MergeFrom(t, splits, i + 1, w.first, w.total + len,
                                   size, overlap)
             ELSE MergeFrom(t, splits, i + 1, first, total + len, size, overlap)

merge_splits(t, splits, size, overlap) ==
    MergeFrom(t, splits, 1, 1, 0, size, overlap)

\* _merge_splits on the characters of a piece, one by one (the separator
\* ""): the window closes every size - overlap characters
CharChunks(t, piece, size, overlap) ==
    LET n == PieceLen(piece)
        k == IF n <= size THEN 1
             ELSE (n - overlap + (size - overlap) - 1) \div (size - overlap)
    IN  Flatten([j \in 1..k |->
            JoinDocs(t, piece.lo + (j - 1) * (size - overlap),
                     Min(piece.lo + (j - 1) * (size - overlap) + size - 1, piece.hi))])

\* the first separator from position s on that is "" or occurs in the piece
SeparatorFor(t, piece, s) ==
    CHOOSE j \in s..Len(Separators) :
        /\ Separators[j] = <<>> \/ Matches(t, piece, Separators[j]) # {}
        /\ \A i \in s..(j - 1) :
              Separators[i] # <<>> /\ Matches(t, piece, Separators[i]) = {}

RECURSIVE split_text(_, _, _)
RECURSIVE GoodSplits(_, _, _, _, _)
\* the loop of _split_text over the pieces: pieces shorter than the chunk
\* size are collected and merged, a longer piece is split with the
\* separators that remain
GoodSplits(t, splits, i, good, s) ==
    IF i > Len(splits)
    THEN merge_splits(t, good, ChunkSize, ChunkOverlap)
    ELSE IF PieceLen(splits[i]) < ChunkSize
         THEN GoodSplits(t, splits, i + 1, Append(good, splits[i]), s)
         ELSE merge_splits(t, good, ChunkSize, ChunkOverlap)
              \o split_text(t, splits[i], s + 1)
              \o GoodSplits(t, splits, i + 1, <<>>, s)

\* RecursiveCharacterTextSplitter._split_text(text, separators[s:])
split_text(t, piece, s) ==
    LET j == SeparatorFor(t, piece, s)
    IN  IF Separators[j] = <<>>
        THEN CharChunks(t, piece, ChunkSize, ChunkOverlap)
        ELSE GoodSplits(t, SplitKeeping(t, piece, Separators[j]), 1, <<>>, j)

\* the chunks of one section document
chunks_of(t) ==
    IF t = <<>> THEN <<>> ELSE split_text(t, [lo |-> 1, hi |-> TextLen(t)], 1)

\* most words in the body of a section
MaxWords == 2

\* lengths of a word: a character, a short and a long paragraph, and a run
\* of characters longer than a chunk
WordLens == {1, 450, 950, 1900}

\* between two words: a blank, a line break, a blank line
WordGaps == { <<[c |-> " ", n |-> 1]>>, <<[c |-> "NL", n |-> 1]>>,
              <<[c |-> "NL", n |-> 2]>> }

RECURSIVE BodyOf(_, _, _)
\* the words of a body, written with two letters in turn
BodyOf(lens, gaps, i) ==
    IF i > Len(lens) THEN <<>>
    ELSE (IF i > 1 THEN gaps[i - 1] ELSE <<>>)
         \o <<[c |-> IF i % 2 = 1 THEN "a" ELSE "b", n |-> lens[i]]>>
         \o BodyOf(lens, gaps, i + 1)

\* page_content of a section document, f"{current_section}\n" +
\* "\n".join(buffer): a heading, a line break (two when the buffer starts
\* with a blank line), the words, and a last line break when the buffer ends
\* with a blank line
SectionTexts ==
    { <<[c |-> "h", n |-> hn], [c |-> "NL", n |-> first]>> \o BodyOf(lens, gaps, 1) \o last :
        hn \in {1, 120}, first \in {1, 2},
        lens \in UNION {[1..k -> WordLens] : k \in 1..MaxWords},
        gaps \in [1..(MaxWords - 1) -> WordGaps],
        last \in {<<>>, <<[c |-> "NL", n |-> 1]>>} }

ChunkCall ==
    /\ fn.pc = "Idle"
    /\ \E t \in SectionTexts :
          fn' = [pc |-> "Chunked", text |-> t, chunks |-> chunks_of(t)]
    /\ UNCHANGED <<store, ing, obs, runs, succ, qry>>

SpecChunk == Init /\ [][ChunkCall]_vars

(***************************************************************************)
(* Ingestion, query and listing running at the same time over one store    *)
(* (SpecMixed).  Each read of the index and each add_documents call is one *)
(* step; the steps of the three invocations interleave freely.             *)
(***************************************************************************)
\* k of the listing's similarity_search
ListK == 100

RECURSIVE ListFrom(_, _, _)
\* the loop of list_documents from result i on
ListFrom(results, i, seen_sources) ==
    IF i > Len(results) THEN <<>>
    ELSE IF results[i].source \notin seen_sources
         THEN <<[filename         |-> results[i].source,
                 publication_year |-> results[i].publication_year,
                 keywords         |-> results[i].keywords]>>
              \o ListFrom(results, i + 1, seen_sources \cup {results[i].source})
         ELSE ListFrom(results, i + 1, seen_sources)

\* the body returned by GET /documents
list_response(results) ==
    LET documents == ListFrom(results, 1, {})
    IN  [status_code |-> 200, total_documents |-> Len(documents), documents |-> documents]

\* list_documents: one search of the summary records, or HTTP 500 when the
\* search raises
ListDocuments ==
    /\ fn.pc = "Idle"
    /\ \/ \E results \in SearchResults(store, ListK,
                            {i \in DOMAIN store : summary_filter(store[i])}) :
             fn' = [pc |-> "Listed", response |-> list_response(results)]
       \/ fn' = [pc |-> "Listed",
                 response |-> [status_code |-> 500, total_documents |-> 0,
                               documents |-> <<>>]]
    /\ UNCHANGED <<store, ing, obs, runs, succ, qry>>

\* the corpus before the invocations: empty, or holding one source
MixedStores ==
    { <<>>, Ingested("a.md", <<PageTitled>>, <<"2", "0", "2", "3">>) }

InitMixed ==
    /\ store \in MixedStores
    /\ ing = [p \in Procs |-> IdleIng]
    /\ obs = [p \in Procs |-> NoObs]
    /\ runs = 0
    /\ succ = [s \in Sources |-> 0]
    /\ qry = NoQuery
    /\ fn = NoFn

NextMixed ==
    \/ StartConc(1)
    \/ IngestStep(1)
    \/ NextQuery
    \/ ListDocuments

SpecMixed == InitMixed /\ [][NextMixed]_vars

(***************************************************************************)
(* Claims about the ingestion pipeline.                                    *)
(***************************************************************************)
StageOrder ==
    <<"CheckExists", "Clean", "SplitPages", "Normalize", "SplitSections",
      "SummarizePages", "SummarizeDocument", "ExtractYear", "ExtractKeywords",
      "AttachMetadata", "Chunk", "Upsert">>

SummariesOf(st, s) == {i \in DOMAIN st : st[i].type = "summary" /\ st[i].source = s}

MentionsAlreadyExists(result) ==
    \E i \in DOMAIN result.message :
        result.message[i] = "' already exists in the database."

\* C1: whenever the existence check reports the file name present, the
\* invocation returns status "error" with a message containing "already
\* exists", has made no model call and no upsert, and the store is what it
\* was when the invocation started.
C1_RejectedWithoutSideEffects ==
    \A p \in Procs :
        obs[p].probe = "found" =>
            /\ ing[p].pc = "Rejected"
            /\ ing[p].result.status = "error"
            /\ MentionsAlreadyExists(ing[p].result)
            /\ obs[p].llm_calls = 0
            /\ obs[p].upsert_calls = 0
            /\ store = obs[p].store0

\* a second upload of a stored source has been probed and found
C1_Witness ==
    \E p \in Procs :
        /\ obs[p].probe = "found"
        /\ ing[p].pc = "Rejected"
        /\ succ[ing[p].file_name] = 1

\* C2: in sequential use at most one invocation per source returns
\* "success", and the store never holds two summary records of one source.
C2_AtMostOneSuccessPerSource ==
    \A s \in Sources :
        /\ succ[s] <= 1
        /\ Cardinality(SummariesOf(store, s)) <= 1

\* C3: an invocation calls the upsert at most once and only after the
\* eleven earlier stages completed in order; the one batch is the page
\* chunks followed by the summary record; until then, and when a stage
\* raised, the store is what it was at the start, and a failed invocation
\* returns status "error" without details.
C3_AllOrNothing ==
    \A p \in Procs :
        /\ obs[p].upsert_calls <= 1
        /\ obs[p].upsert_calls = 1 => SubSeq(obs[p].done, 1, 11) = SubSeq(StageOrder, 1, 11)
        /\ ing[p].pc = "Done" =>
              LET b == obs[p].batch
              IN  /\ store = obs[p].store0 \o b
                  /\ b # <<>>
                  /\ b[Len(b)].type = "summary"
                  /\ b[Len(b)].source = ing[p].file_name
                  /\ \A i \in 1..(Len(b) - 1) : b[i].type = "page"
                  /\ SubSeq(b, 1, Len(b) - 1) = split_documents(ing[p].final_docs)
        /\ ing[p].pc \notin {"Idle", "Done"} => store = obs[p].store0
        /\ ing[p].pc = "Failed" =>
              /\ obs[p].failed # "none"
              /\ ing[p].result.status = "error"
              /\ "details" \notin DOMAIN ing[p].result

\* an invocation has uploaded page chunks and a summary, and another has
\* failed after several stages
C3_Witness ==
    \E p \in Procs :
        /\ ing[p].pc = "Failed"
        /\ obs[p].failed = "ExtractKeywords"
        /\ Len(ing[p].docs) >= 2
        /\ store # <<>>
        /\ Len(obs[p].store0) >= 3

AnyCallFailed(p) == obs[p].probe = "raised" \/ obs[p].failed # "none"

\* C4: an invocation in which a backing call failed (the existence probe
\* included) ends with status "error" and has written nothing.
C4_EveryCallFailureAborts ==
    \A p \in Procs :
        (AnyCallFailed(p) /\ ing[p].pc \in Terminal) =>
            /\ ing[p].pc = "Failed"
            /\ ing[p].result.status = "error"
            /\ obs[p].batch = <<>>
            /\ store = obs[p].store0

\* C5: a worker at the check or at the upload never waits for the other
\* (nothing excludes the interleaving in which both pass the check and both
\* upload: the witness is that interleaving), and uploads
\* of different sources do not affect each other: neither is rejected, and
\* the records of each source are the batch of its own upload.
C5_NoExclusionAndIndependence ==
    \A p \in Procs :
        /\ ing[p].pc = "CheckExists" => ENABLED CheckExists(p)
        /\ ing[p].pc = "Upsert" => ENABLED Upsert(p)
        /\ \A q \in Procs \ {p} :
              (ing[p].pc # "Idle" /\ ing[q].pc # "Idle"
                  /\ ing[p].file_name # ing[q].file_name) =>
                 /\ obs[p].probe # "found"
                 /\ SelectSeq(store, LAMBDA d : d.source = ing[p].file_name)
                       = obs[p].batch

\* both uploads of one source passed the check and both uploaded
C5_Witness ==
    /\ ing[1].file_name = ing[2].file_name
    /\ \A p \in Procs :
          /\ ing[p].pc = "Done"
          /\ ing[p].result.status = "success"
          /\ obs[p].probe = "absent"
    /\ Cardinality(SummariesOf(store, ing[1].file_name)) = 2

(***************************************************************************)
(* Claims about the relevance filter and the source extraction.            *)
(***************************************************************************)
WellFormedReply(response) ==
    /\ response.kind = "array"
    /\ \A i \in DOMAIN response.items :
          {"filename", "score"} \subseteq DOMAIN response.items[i]

\* the place of entry i among the entries that reach the floor: after those
\* of greater score and after the earlier ones of equal score
RankOf(items, i) ==
    1 + Cardinality({j \in DOMAIN items :
                        /\ items[j].score >= 50
                        /\ \/ items[j].score > items[i].score
                           \/ items[j].score = items[i].score /\ j < i})

\* C7: on a parsed judge array the filter returns the file names of the
\* entries with score >= 50, by descending score, equal scores in the
\* judge's order, cut to 3; [{a,90},{b,40},{c,100}] gives [c, a].
C7_FilterSortsFloorsAndCaps ==
    (fn.pc = "Filtered" /\ WellFormedReply(fn.response)) =>
        LET items == fn.response.items
            out   == fn.filtered_docs
            reach == {i \in DOMAIN items : items[i].score >= 50}
        IN  /\ Len(out) = Min(3, Cardinality(reach))
            /\ \A i \in reach :
                  RankOf(items, i) <= 3 => out[RankOf(items, i)] = items[i].filename
            /\ items = << [filename |-> "a.md", score |-> 90],
                          [filename |-> "b.md", score |-> 40],
                          [filename |-> "c.md", score |-> 100] >>
                  => out = <<"c.md", "a.md">>

\* five entries reach the floor, with ties, and three are kept
C7_Witness ==
    /\ fn.pc = "Filtered"
    /\ fn.response.kind = "array"
    /\ fn.response.items = << [filename |-> "a.md", score |-> 50],
                              [filename |-> "b.md", score |-> 90],
                              [filename |-> "c.md", score |-> 50],
                              [filename |-> "a.md", score |-> 90] >>
    /\ fn.filtered_docs = <<"b.md", "a.md", "a.md">>

MalformedReply(response) ==
    \/ response.kind # "array"
    \/ \E i \in DOMAIN response.items :
          "filename" \notin DOMAIN response.items[i]
             \/ "score" \notin DOMAIN response.items[i]

\* C8: whenever the judge reply is no JSON, no array, or has an entry
\* without the filename key or without the score key, the filter returns
\* the sources of the first min(3, n) candidates, in retrieval order.
C8_FallbackOnEveryMalformedReply ==
    (fn.pc = "Filtered" /\ MalformedReply(fn.response)) =>
        LET n == Min(3, Len(fn.summary_candidates))
        IN  fn.filtered_docs = [j \in 1..n |-> fn.summary_candidates[j].source]

PairOf(hit) == <<hit.source, hit.page_number>>

\* the hits that are the first of their (source, page_number) pair
FirstSeen(page_hits) ==
    {i \in DOMAIN page_hits : \A j \in 1..(i - 1) : PairOf(page_hits[j]) # PairOf(page_hits[i])}

\* C9: extract_sources returns one record per distinct (source,
\* page_number) pair, in the order of the pairs' first occurrences, each
\* with the section of the first hit of its pair.
C9_SourcesDedupedFirstSeen ==
    fn.pc = "Extracted" =>
        LET first == FirstSeen(fn.page_hits)
        IN  /\ Len(fn.sources) = Cardinality(first)
            /\ \A i \in first :
                  LET k == Cardinality({j \in first : j <= i})
                  IN  fn.sources[k] = [source      |-> fn.page_hits[i].source,
                                       section     |-> fn.page_hits[i].section,
                                       page_number |-> fn.page_hits[i].page_number]

\* two hits share ("t.md", 1) with different sections, a third differs
C9_Witness ==
    /\ fn.pc = "Extracted"
    /\ Len(fn.page_hits) = 3
    /\ PairOf(fn.page_hits[1]) = <<"t.md", 1>>
    /\ PairOf(fn.page_hits[2]) = <<"t.md", 2>>
    /\ PairOf(fn.page_hits[3]) = <<"t.md", 1>>
    /\ fn.page_hits[1].section = <<"Intro">>
    /\ fn.page_hits[3].section = <<"Methods">>
    /\ fn.sources = << [source |-> "t.md", section |-> <<"Intro">>, page_number |-> 1],
                       [source |-> "t.md", section |-> fn.page_hits[2].section,
                        page_number |-> 2] >>

(***************************************************************************)
(* Claims about the query pipeline.                                        *)
(***************************************************************************)
StageIndex(stage) == CHOOSE k \in DOMAIN QueryStages : QueryStages[k] = stage

\* C6: query never raises: every stage that raises ends the invocation at
\* once with exactly the fields answer, sources and filtered_documents,
\* the two lists empty and the answer describing the error, no later stage
\* having run; without a failure the three fields are the stages' outputs.
C6_QueryNeverRaises ==
    qry.pc # "Idle" =>
        /\ qry.raised # "none" => qry.pc = "Returned"
        /\ qry.pc # "Returned" => ENABLED NextQuery
        /\ qry.pc = "Returned" =>
              /\ DOMAIN qry.result = {"answer", "sources", "filtered_documents"}
              /\ IF qry.raised # "none"
                 THEN /\ qry.result.sources = <<>>
                      /\ qry.result.filtered_documents = <<>>
                      /\ qry.result.answer = <<"An error occurred: ", qry.raised>>
                      /\ qry.stages = SubSeq(QueryStages, 1, StageIndex(qry.raised))
                      /\ qry.sources = <<>>
                      /\ qry.raised \in {"Filter", "RetrievePages"} =>
                            qry.answer = <<>> /\ qry.context = <<>>
                      /\ qry.raised = "Filter" => qry.page_hits = <<>>
                 ELSE /\ qry.stages = QueryStages
                      /\ qry.result.answer = qry.answer
                      /\ qry.result.sources = qry.sources
                      /\ qry.result.filtered_documents = qry.filtered_docs

\* the generation call raised after the filter had kept a document and
\* pages had been retrieved
C6_Witness ==
    /\ qry.pc = "Returned"
    /\ qry.raised = "GenerateAnswer"
    /\ qry.filtered_docs # <<>>
    /\ qry.page_hits # <<>>
    /\ qry.result.filtered_documents = <<>>

FilterReturned == qry.pc # "Idle" /\ qry.stages # <<>> /\ qry.raised # "Filter"

FirstHeading(page) ==
    LET hs == {j \in DOMAIN page : SectionMatches(Strip(page[j]))}
    IN  IF hs = {} THEN Len(page) + 1
        ELSE CHOOSE j \in hs : \A k \in hs : j <= k

\* the pages with the lines before their first heading taken away
WithoutOrphans(pages) ==
    [k \in DOMAIN pages |-> SubSeq(pages[k], FirstHeading(pages[k]), Len(pages[k]))]

\* the lines a Section record holds under its heading
BufferOf(doc) == Tail(doc.page_content)

\* the length of "\n".join(buffer)
BufferedTextLen(buffer) ==
    IF buffer = <<>> THEN 0 ELSE Len(Flatten(buffer)) + Len(buffer) - 1

Renumbered(docs, page_no) ==
    [i \in DOMAIN docs |-> [docs[i] EXCEPT !.page_number = page_no]]

\* C11: text before the first heading of a page is dropped: the page
\* "orphan text / ## H / body" gives exactly the one record (H, body), and in
\* general the records are those of the pages without the lines that precede
\* their first heading.
C11_OrphanTextDropped ==
    fn.pc = "Split" =>
        /\ fn.normalized_pages = << << <<"o">>, Hd(2, <<"H">>), <<"b">> >> >> =>
              fn.docs = <<SectionDoc(<<"H">>, << <<"b">> >>, fn.file_name, 1)>>
        /\ fn.docs = split_into_sections(WithoutOrphans(fn.normalized_pages),
                                         fn.file_name)

\* C12: the records carry page numbers between 1 and the number of pages,
\* non-decreasing along the output, and the text buffered under the heading
\* of every record is non-empty.
C12_PageNumbersAndNonEmptyText ==
    fn.pc = "Split" =>
        /\ \A i \in DOMAIN fn.docs :
              fn.docs[i].page_number \in 1..Len(fn.normalized_pages)
        /\ \A i, j \in DOMAIN fn.docs :
              i < j => fn.docs[i].page_number <= fn.docs[j].page_number
        /\ \A i \in DOMAIN fn.docs : BufferedTextLen(BufferOf(fn.docs[i])) > 0

\* C20: the splitter works page by page: its output on a list of pages is
\* the concatenation of its outputs on each page alone, numbered with the
\* page's position.
C20_SectionsSplitPerPage ==
    fn.pc = "Split" =>
        fn.docs = Flatten([k \in DOMAIN fn.normalized_pages |->
                      Renumbered(split_into_sections(<<fn.normalized_pages[k]>>,
                                                     fn.file_name), k)])

\* two pages, the first ending inside a section with text, the second
\* starting with text before its first heading; both pages gave records
C20_Witness ==
    /\ fn.pc = "Split"
    /\ Len(fn.normalized_pages) = 2
    /\ fn.normalized_pages[1] = << Hd(2, <<"H">>), <<"b">> >>
    /\ fn.normalized_pages[2] = << <<"o">>, Hd(1, <<"A">>), <<"b">> >>
    /\ \E i \in DOMAIN fn.docs : fn.docs[i].page_number = 1
    /\ \E i \in DOMAIN fn.docs : fn.docs[i].page_number = 2

(***************************************************************************)
(* Claims about the result and the batch of a successful ingestion.        *)
(***************************************************************************)
RECURSIVE CountOf(_, _)
CountOf(s, x) ==
    IF s = <<>> THEN 0 ELSE (IF Head(s) = x THEN 1 ELSE 0) + CountOf(Tail(s), x)

DetailFields ==
    {"pages_processed", "sections_created", "chunks_created",
     "document_ids_count", "publication_year", "keywords"}

\* C13: a successful invocation returns details with the six fields:
\* pages_processed is the number of page-break markers of the cleaned text
\* plus one, sections_created the number of records of the splitter,
\* chunks_created the number of type "page" records of the batch (the batch
\* size minus one), document_ids_count the number of ids the upsert
\* returned, and the five counts are non-negative integers.
C13_SuccessDetails ==
    \A p \in Procs :
        (ing[p].result.status = "success") =>
            LET d == ing[p].result.details
                b == obs[p].batch
            IN  /\ ing[p].pc = "Done"
                /\ DOMAIN d = DetailFields
                /\ d.pages_processed = CountOf(ing[p].clean_text, TokBreak) + 1
                /\ d.sections_created =
                      Len(split_into_sections(ing[p].normalized_pages, ing[p].file_name))
                /\ d.chunks_created = Cardinality({i \in DOMAIN b : b[i].type = "page"})
                /\ d.chunks_created = Len(b) - 1
                /\ d.document_ids_count = Len(ing[p].document_ids)
                /\ d.document_ids_count = Len(store) - Len(obs[p].store0)
                /\ \A f \in DetailFields \ {"keywords"} : d[f] \in Nat

\* a two-page file gave several sections, and a file gave none
C13_Witness ==
    \E p \in Procs :
        /\ ing[p].result.status = "success"
        /\ ing[p].result.details.pages_processed = 2
        /\ ing[p].result.details.sections_created >= 3
        /\ ing[p].result.details.publication_year > 0
        /\ \E i \in DOMAIN store : store[i].type = "summary" /\ store[i].source # ing[p].file_name

\* C14: the batch of a successful ingestion of source s ends with its only
\* "summary" record (source s, page_number 0, empty section); every other
\* record is a "page" record of source s with page_number >= 1 and the
\* section of a Section record of that page; all records carry the same
\* publication_year and keywords.
C14_BatchShape ==
    \A p \in Procs :
        ing[p].pc = "Done" =>
            LET b == obs[p].batch
                n == Len(b)
            IN  /\ n >= 1
                /\ {i \in DOMAIN b : b[i].type = "summary"} = {n}
                /\ b[n].source = ing[p].file_name
                /\ b[n].page_number = 0
                /\ b[n].section = <<>>
                /\ \A i \in 1..(n - 1) :
                      /\ b[i].type = "page"
                      /\ b[i].source = ing[p].file_name
                      /\ b[i].page_number >= 1
                      /\ \E j \in DOMAIN ing[p].docs :
                            /\ ing[p].docs[j].section = b[i].section
                            /\ ing[p].docs[j].page_number = b[i].page_number
                /\ \A i \in DOMAIN b :
                      /\ b[i].publication_year = ing[p].publication_year
                      /\ b[i].keywords = ing[p].keywords

\* a batch with page records of two pages and a year read from the reply
C14_Witness ==
    \E p \in Procs :
        /\ ing[p].pc = "Done"
        /\ Len(obs[p].batch) >= 3
        /\ obs[p].batch[1].page_number = 1
        /\ \E i \in DOMAIN obs[p].batch : obs[p].batch[i].page_number = 2
        /\ ing[p].publication_year = 2023

(***************************************************************************)
(* Claims about the order of the stages.                                   *)
(***************************************************************************)
\* the stage that follows a stage in the pipeline, "Done" after the last
NextStage(stage) ==
    LET i == CHOOSE k \in DOMAIN StageOrder : StageOrder[k] = stage
    IN  IF i < Len(StageOrder) THEN StageOrder[i + 1] ELSE "Done"

\* the moves of an invocation: into the first stage, from a stage to the
\* next one, to Failed, and from the existence check to Rejected
StageMove(from, to) ==
    \/ from = "Idle" /\ to = "CheckExists"
    \/ /\ from \in Range(StageOrder)
       /\ \/ to = NextStage(from)
          \/ to = "Failed"
          \/ from = "CheckExists" /\ to = "Rejected"

\* C19: an invocation passes through CheckExists, Clean, SplitPages,
\* Normalize, SplitSections, SummarizePages, SummarizeDocument, ExtractYear,
\* ExtractKeywords, AttachMetadata, Chunk, Upsert in this order, each stage
\* completed once before the next starts; it ends in Done, Rejected or
\* Failed, and stays there.
C19_StagesInOrderToTerminal ==
    /\ [][\A p \in Procs :
            /\ ing'[p].pc # ing[p].pc => StageMove(ing[p].pc, ing'[p].pc)
            /\ ing[p].pc \in Terminal => ing'[p] = ing[p]
            /\ obs'[p].done # obs[p].done =>
                  /\ obs'[p].done = Append(obs[p].done, ing[p].pc)
                  /\ obs'[p].done = SubSeq(StageOrder, 1, Len(obs'[p].done))]_vars
    /\ \A p \in Procs : (ing[p].pc = "CheckExists") ~> (ing[p].pc \in Terminal)
    /\ \A p \in Procs : [](ing[p].pc = "Done" => obs[p].done = StageOrder)

\* an invocation has completed the twelve stages over a store that held
\* another source
C19_Witness ==
    \E p \in Procs :
        /\ ing[p].pc = "Done"
        /\ obs[p].done = StageOrder
        /\ obs[p].store0 # <<>>
        /\ Len(ing[p].pages) = 2

(***************************************************************************)
(* Claims about the upload endpoint.                                       *)
(***************************************************************************)
\* C15: for a valid UTF-8 .md upload the endpoint answers 200 when the
\* ingestion returned "success" and 400 when it returned "error".
C15_UploadStatusFollowsResult ==
    (fn.pc = "Responded" /\ fn.invoked) =>
        /\ ing[1].result.status = "success" => fn.status_code = 200
        /\ ing[1].result.status = "error" => fn.status_code = 400

\* C16: an upload whose name does not end in .md, or whose bytes are not
\* UTF-8, is answered 400 without process_markdown_file being invoked: no
\* probe, no model call, no upsert, the store as it was.
C16_InvalidUploadRejectedEarly ==
    (fn.pc = "Responded"
        /\ (~EndsWith(NameChars(fn.filename), <<".", "m", "d">>) \/ ~fn.body.utf8)) =>
        /\ fn.status_code = 400
        /\ ~fn.invoked
        /\ runs = 0
        /\ ing = [p \in Procs |-> IdleIng]
        /\ obs = [p \in Procs |-> NoObs]
        /\ store = fn.store0

\* bytes that do not decode, under a markdown name, were turned away
C16_Witness ==
    /\ fn.pc = "Responded"
    /\ fn.filename = "a.md"
    /\ ~fn.body.utf8
    /\ fn.status_code = 400
    /\ store # <<>>

(***************************************************************************)
(* Claims about the publication year.                                      *)
(***************************************************************************)
RECURSIVE Pow10(_)
Pow10(n) == IF n = 0 THEN 1 ELSE 10 * Pow10(n - 1)

\* the number a string of decimal digits spells
DecimalValue(ds) ==
    LET RECURSIVE Sum(_)
        Sum(i) == IF i > Len(ds) THEN 0
                  ELSE DigitValue(ds[i]) * Pow10(Len(ds) - i) + Sum(i + 1)
    IN  Sum(1)

\* C18: extract_publication_year returns an integer for every reply: 0 when
\* the reply holds no digit, otherwise the number its digits spell ("2023"
\* gives 2023); the value is never negative, and no reply makes it raise.
C18_YearIsAlwaysAnInteger ==
    fn.pc = "Year" =>
        /\ ~fn.raised
        /\ fn.year \in Nat
        /\ (\A i \in DOMAIN fn.content : ~IsDecimal(fn.content[i]) /\ fn.content[i] # "SUP2")
              => fn.year = 0
        /\ fn.content = <<"2", "0", "2", "3">> => fn.year = 2023
        /\ (\A i \in DOMAIN fn.content : fn.content[i] # "SUP2") =>
              fn.year = DecimalValue(SelectSeq(fn.content, IsDecimal))

(***************************************************************************)
(* Claims about the chunking.                                              *)
(***************************************************************************)
\* the characters of the text between two positions, as runs
Slice(t, lo, hi) ==
    SelectSeq([k \in DOMAIN t |->
                  [c |-> t[k].c,
                   n |-> Min(hi, RunEnd(t, k)) - Max(lo, RunStart(t, k)) + 1]],
              LAMBDA r : r.n > 0)

\* C17: a section of length L gives ceil((L-100)/900) chunks when L > 1000
\* and one chunk, the whole text, when L <= 1000; the last 100 characters of
\* a chunk are the first 100 of the next; no chunk is empty and the end of
\* the text is not dropped.
C17_SlidingWindowChunks ==
    fn.pc = "Chunked" =>
        LET L  == TextLen(fn.text)
            cs == fn.chunks
        IN  /\ L > 1000 => Len(cs) = (L - 100 + 899) \div 900
            /\ L <= 1000 => cs = <<[lo |-> 1, hi |-> L]>>
            /\ \A i \in 1..(Len(cs) - 1) :
                  Slice(fn.text, cs[i].hi - 99, cs[i].hi)
                      = Slice(fn.text, cs[i + 1].lo, cs[i + 1].lo + 99)
            /\ \A i \in DOMAIN cs : cs[i].lo <= cs[i].hi
            /\ cs # <<>> /\ cs[Len(cs)].hi = L

\* C17, as the splitter works: every chunk is a non-empty stretch of the
\* text of at most 1000 characters that neither starts nor ends with white
\* space; the chunks follow the text, consecutive chunks share at most 100
\* characters, and every character that is not white space lies in a chunk;
\* a text of at most 1000 characters gives one chunk, the text without its
\* surrounding white space.
C17_ChunksBoundedAndCovering ==
    fn.pc = "Chunked" =>
        LET L  == TextLen(fn.text)
            cs == fn.chunks
        IN  /\ \A i \in DOMAIN cs :
                  /\ 1 <= cs[i].lo /\ cs[i].lo <= cs[i].hi /\ cs[i].hi <= L
                  /\ PieceLen(cs[i]) <= ChunkSize
                  /\ ~IsSpace(CharAt(fn.text, cs[i].lo))
                  /\ ~IsSpace(CharAt(fn.text, cs[i].hi))
            /\ \A i \in 1..(Len(cs) - 1) :
                  /\ cs[i].lo <= cs[i + 1].lo
                  /\ cs[i].hi <= cs[i + 1].hi
                  /\ cs[i].hi - cs[i + 1].lo + 1 <= ChunkOverlap
            /\ \A k \in DOMAIN fn.text :
                  ~IsSpace(fn.text[k].c) =>
                      \A x \in {RunStart(fn.text, k), RunEnd(fn.text, k)} :
                          \E i \in DOMAIN cs : cs[i].lo <= x /\ x <= cs[i].hi
            /\ \A k \in DOMAIN fn.text :
                  ~IsSpace(fn.text[k].c) =>
                      \A i \in 1..(Len(cs) - 1) :
                          (RunStart(fn.text, k) <= cs[i].hi /\ cs[i].hi < RunEnd(fn.text, k))
                              => cs[i + 1].lo <= cs[i].hi + 1
            /\ L <= ChunkSize =>
                  cs = <<[lo |-> 1, hi |-> SkipSpaceRight(fn.text, 1, L)]>>

\* a text longer than a chunk was cut at a line break into two chunks that
\* share nothing, and a text with a run longer than a chunk was cut inside it
C17_Witness ==
    /\ fn.pc = "Chunked"
    /\ TextLen(fn.text) > ChunkSize
    /\ \E i \in 1..(Len(fn.chunks) - 1) :
          fn.chunks[i].hi - fn.chunks[i + 1].lo + 1 = ChunkOverlap
    /\ \E i \in 1..(Len(fn.chunks) - 1) : fn.chunks[i].hi < fn.chunks[i + 1].lo

(***************************************************************************)
(* Claims about the relevance filter's output and the query's frame.       *)
(***************************************************************************)
NoRepeats(s) == \A i, j \in DOMAIN s : i # j => s[i] # s[j]

CandidateSources(summary_candidates) ==
    {summary_candidates[i].source : i \in DOMAIN summary_candidates}

\* C23: for every judge output, the list returned by get_filtered_documents
\* has at most 3 entries, has no repeated entry, and every entry is the
\* source of one of the summary candidates retrieved for the query.
C23_FilterReturnsDistinctCandidates ==
    fn.pc = "Filtered" =>
        /\ Len(fn.filtered_docs) <= TopN
        /\ NoRepeats(fn.filtered_docs)
        /\ Range(fn.filtered_docs) \subseteq CandidateSources(fn.summary_candidates)

\* the judge was called and returned a reply
JudgeReplied == qry.pc # "Idle" /\ qry.response.kind # "none"

\* C24: when the judge call succeeds but its reply does not parse (no JSON,
\* no array, or an entry without the filename or the score key) and the
\* remaining calls succeed, query returns the normal response:
\* filtered_documents are the sources of the first up to 3 summary
\* candidates, sources are extracted from the pages retrieved for that
\* selection, the answer is the generation model's, and the degraded error
\* response is not returned.
C24_MalformedJudgeReplyIsRecovered ==
    (JudgeReplied /\ MalformedReply(qry.response)) =>
        /\ qry.raised # "Filter"
        /\ (qry.pc = "Returned" /\ qry.raised = "none") =>
              LET n   == Min(3, Len(qry.summary_candidates))
                  sel == [j \in 1..n |-> qry.summary_candidates[j].source]
              IN  /\ qry.result.filtered_documents = sel
                  /\ qry.page_hits \in
                        SearchResults(store, PageK,
                            {i \in DOMAIN store :
                                /\ store[i].type = "page"
                                /\ store[i].source \in Range(sel)})
                  /\ qry.result.sources = extract_sources(qry.page_hits)
                  /\ qry.result.answer = qry.answer
                  /\ qry.answer \in AnswerReplies
                  /\ qry.result # query_error_result("Filter", <<>>)

\* the page records of the store whose source is one of the documents
PagesOf(st, documents) ==
    {i \in DOMAIN st : st[i].type = "page" /\ st[i].source \in Range(documents)}

\* C22: page retrieval runs only after the relevance filter has returned,
\* and only over type=page records whose source is in filtered_documents:
\* in every non-error result sources has at most 5 entries, every entry's
\* source is an element of filtered_documents, and no entry comes from a
\* summary record (no entry has page_number 0).
C22_PagesOnlyFromFilteredDocuments ==
    qry.pc # "Idle" =>
        /\ \A k \in DOMAIN qry.stages :
              qry.stages[k] = "RetrievePages" => k = 2 /\ qry.stages[1] = "Filter"
        /\ qry.stages = <<>> => qry.page_hits = <<>>
        /\ Len(qry.page_hits) <= 5
        /\ \A h \in DOMAIN qry.page_hits :
              \E i \in PagesOf(store, qry.filtered_docs) : qry.page_hits[h] = store[i]
        /\ (qry.pc = "Returned" /\ qry.raised = "none") =>
              /\ qry.result.filtered_documents = qry.filtered_docs
              /\ Len(qry.result.sources) <= 5
              /\ \A e \in DOMAIN qry.result.sources :
                    LET entry == qry.result.sources[e]
                    IN  /\ entry.source \in Range(qry.result.filtered_documents)
                        /\ entry.page_number # 0
                        /\ \E i \in PagesOf(store, qry.result.filtered_documents) :
                              /\ store[i].source = entry.source
                              /\ store[i].page_number = entry.page_number
                              /\ store[i].section = entry.section

\* the filter kept both documents of a corpus with more than 5 matching
\* pages; 5 of them were retrieved and the query returned their sources
C22_Witness ==
    /\ qry.pc = "Returned"
    /\ qry.raised = "none"
    /\ Cardinality(Range(qry.result.filtered_documents)) = 2
    /\ Cardinality(PagesOf(store, qry.result.filtered_documents)) > 5
    /\ Len(qry.page_hits) = 5
    /\ qry.result.sources # <<>>
    /\ \E i \in DOMAIN store : store[i].type = "summary"

(***************************************************************************)
(* Claims about ingestion, query and listing running together.             *)
(***************************************************************************)
\* every source with a page record in st has a summary record in st
PagesHaveSummary(st) ==
    \A i \in DOMAIN st :
        st[i].type = "page" => \E j \in DOMAIN st :
                                   st[j].type = "summary" /\ st[j].source = st[i].source

\* added is one whole batch of one ingestion of file_name: its page
\* records followed by its one summary record
WholeBatch(added, file_name) ==
    /\ added # <<>>
    /\ \A k \in DOMAIN added : added[k].source = file_name
    /\ added[Len(added)].type = "summary"
    /\ \A k \in 1..(Len(added) - 1) : added[k].type = "page"

\* a step of the store: nothing unless an ingestion uploads, and then the
\* old records stay as they were, in place, followed by one whole batch
StoreStep ==
    /\ (qry' # qry \/ fn' # fn) => store' = store
    /\ Len(store') >= Len(store)
    /\ SubSeq(store', 1, Len(store)) = store
    /\ store' # store =>
          \E p \in Procs :
             /\ ing[p].pc = "Upsert"
             /\ ing'[p].pc = "Done"
             /\ WholeBatch(SubSeq(store', Len(store) + 1, Len(store')), ing[p].file_name)

\* C21: under any interleaving of ingestion, query and listing the store
\* only grows by whole ingestion batches: query and listing leave the store
\* unchanged, no record already in the store is modified or removed, and in
\* every reachable state every source with a type=page record also has a
\* type=summary record, so what a query reads of an ingestion is none or
\* all of its records.
C21_StoreGrowsByWholeBatches ==
    /\ [](/\ PagesHaveSummary(store)
          /\ qry.pc # "Idle" =>
                /\ \A h \in DOMAIN qry.page_hits :
                      /\ \E i \in DOMAIN store : store[i] = qry.page_hits[h]
                      /\ SummariesOf(store, qry.page_hits[h].source) # {}
                /\ \A c \in DOMAIN qry.summary_candidates :
                      \E i \in DOMAIN store : store[i] = qry.summary_candidates[c])
    /\ [][StoreStep]_vars

\* a query and a listing ran while b.md was ingested into a corpus holding
\* a.md: the summary search came before the upload and saw none of b.md,
\* the page search came after it and retrieved a page of b.md
C21_Witness ==
    /\ ing[1].pc = "Done"
    /\ ing[1].file_name = "b.md"
    /\ qry.pc = "Returned"
    /\ qry.raised = "none"
    /\ \A c \in DOMAIN qry.summary_candidates : qry.summary_candidates[c].source = "a.md"
    /\ \E h \in DOMAIN qry.page_hits : qry.page_hits[h].source = "b.md"
    /\ fn.pc = "Listed"
    /\ fn.response.status_code = 200
    /\ Len(store) > 2

====
